---- MODULE Spec2Model ----
(***************************************************************************)
(* Model of YaLibs/YaToolsIDALib/Hooks.cpp: the Hooks object collects the  *)
(* identifiers touched by IDA events in seven pending containers, and      *)
(* save() reconciles them against the live database and drives the model   *)
(* visitor.                                                                *)
(*                                                                         *)
(* The live database (get_struc, get_struc_idx, get_func_by_frame,         *)
(* get_member, get_enum_idx, get_func, is_code, is_member_id,              *)
(* get_member_fullname) is an input: every call draws the answers it reads *)
(* and records them in `oracle`.  `auto_comments` and `log` hold what the  *)
(* most recent call sent to the repository and to the logger; `trace`      *)
(* holds, in order, every call the most recent save() made to the visitor, *)
(* the repository and the serializer.                                      *)
(***************************************************************************)
EXTENDS Integers, Sequences, FiniteSets, Bags, TLC

\* ------------------------------------------------------------- domains
BADADDR == -1
BADNODE == -1

Addrs == {16, 17}
\* the addresses that may own a stack frame
Funcs == {16}
Structs == {32, 33}
Enums == {48, 49}
MemberIds == {64, 65}
\* the member edits the events report: (member id, member offset)
MemberEdits == {<<64, 0>>, <<65, 1>>}
Offsets == {0, 1}
Segments == {<<16, 17>>, <<17, 18>>}

Types == {"", "sub"}
OldNames == {"", "foo"}
NewNames == {"bar"}
FullNames == {"st.x"}

\* number of intake calls between two flush() calls
MaxBatch == 2

VARIABLES
    addresses_to_process,   \* std::set<ea_t>, in iteration order
    structures_to_process,  \* std::set<tid_t>, in iteration order
    structmember_to_process,\* std::map<tid_t, tuple<tid_t, ea_t>>
    enums_to_process,       \* std::set<enum_t>, in iteration order
    enummember_to_process,  \* std::map<ea_t, tid_t>
    comments_to_process,    \* std::set<ea_t>, in iteration order
    segments_to_process,    \* std::set<tuple<ea_t, ea_t>>, in iteration order
    auto_comments,          \* repo_manager_->add_auto_comment calls of the last call
    trace,                  \* visitor, repository and serializer calls of the last save()
    log,                    \* IDA_LOG_* lines of the last call
    oracle,                 \* database answers read by the last call
    last,                   \* the last call and its arguments
    result,                 \* "ok", or "error" when the last call threw
    registered              \* bag of the entities registered since the last flush()

pending == <<addresses_to_process, structures_to_process, structmember_to_process,
             enums_to_process, enummember_to_process, comments_to_process,
             segments_to_process>>

vars == <<addresses_to_process, structures_to_process, structmember_to_process,
          enums_to_process, enummember_to_process, comments_to_process,
          segments_to_process, auto_comments, trace, log, oracle, last, result,
          registered>>

\* ------------------------------------------------------------- containers
IntLess(a, b) == a < b

TupleLess(a, b) == a[1] < b[1] \/ (a[1] = b[1] /\ a[2] < b[2])

Range(seq) == {seq[i] : i \in DOMAIN seq}

\* insert on a container that keeps duplicates, as a vector would
SetInsert_keeps_duplicates(seq, x) == Append(seq, x)

\* std::set<ea_t>::insert on the ordered sequence of the set's elements
SetInsert(seq, x) ==
    IF x \in Range(seq)
    THEN seq
    ELSE LET k == Cardinality({i \in DOMAIN seq : IntLess(seq[i], x)})
         IN  SubSeq(seq, 1, k) \o <<x>> \o SubSeq(seq, k + 1, Len(seq))

\* std::set<std::tuple<ea_t, ea_t>>::insert
SegmentInsert(seq, x) ==
    IF x \in Range(seq)
    THEN seq
    ELSE LET k == Cardinality({i \in DOMAIN seq : TupleLess(seq[i], x)})
         IN  SubSeq(seq, 1, k) \o <<x>> \o SubSeq(seq, k + 1, Len(seq))

\* std::map::operator[] followed by an assignment
MapAssign(map, key, value) == (key :> value) @@ map

\* the keys of a std::map in iteration order
RECURSIVE MapKeys(_)
MapKeys(map) ==
    IF DOMAIN map = {}
    THEN <<>>
    ELSE LET k == CHOOSE x \in DOMAIN map : \A y \in DOMAIN map : x <= y
         IN  <<k>> \o MapKeys([y \in DOMAIN map \ {k} |-> map[y]])

EmptyMap == <<>>

\* ------------------------------------------------------------- strings
HexDigits == <<"0", "1", "2", "3", "4", "5", "6", "7",
               "8", "9", "A", "B", "C", "D", "E", "F">>

RECURSIVE ea_to_hex(_)
ea_to_hex(ea) ==
    IF ea < 16
    THEN HexDigits[ea + 1]
    ELSE ea_to_hex(ea \div 16) \o HexDigits[(ea % 16) + 1]

\* ------------------------------------------------------------- initial state
NoAnswers == [none |-> TRUE]

Call(name, args) == [op |-> name, args |-> args]

Init ==
    /\ addresses_to_process = <<>>
    /\ structures_to_process = <<>>
    /\ structmember_to_process = EmptyMap
    /\ enums_to_process = <<>>
    /\ enummember_to_process = EmptyMap
    /\ comments_to_process = <<>>
    /\ segments_to_process = <<>>
    /\ auto_comments = <<>>
    /\ trace = <<>>
    /\ log = <<>>
    /\ oracle = NoAnswers
    /\ last = Call("Hooks", <<>>)
    /\ result = "ok"
    /\ registered = EmptyBag

\* ------------------------------------------------------------- intake
\* ghost bookkeeping: the entity a call registers, counted per batch
Register(entity) == registered' = registered (+) SetToBag({entity})

BatchOpen == BagCardinality(registered) < MaxBatch

\* what a call that is not save() leaves alone or resets
Quiet ==
    /\ trace' = <<>>
    /\ log' = <<>>
    /\ result' = "ok"

\* add_address_to_process on a container that keeps duplicates
add_address_always_appends(addresses, comments, ea, message) ==
    [addresses |-> addresses \o <<ea>>,
     comments  |-> Append(comments, <<ea, message>>)]

\* Hooks::add_address_to_process, as a function of the address set and of
\* the annotations appended so far by the running call
add_address_to_process(addresses, comments, ea, message) ==
    [addresses |-> SetInsert(addresses, ea),
     comments  |-> Append(comments, <<ea, message>>)]

\* add_strucmember_to_process with std::map::insert, which keeps an existing entry
add_strucmember_keeps_first(members, struct_id, member_id, member_offset) ==
    members @@ (struct_id :> <<member_id, member_offset>>)

\* Hooks::add_strucmember_to_process
add_strucmember_to_process(members, struct_id, member_id, member_offset) ==
    MapAssign(members, struct_id, <<member_id, member_offset>>)

\* an intake entry point that only calls add_address_to_process(ea, message)
AddressIntake(name, args, ea, message) ==
    LET r == add_address_to_process(addresses_to_process, <<>>, ea, message)
    IN  /\ BatchOpen
        /\ addresses_to_process' = r.addresses
        /\ auto_comments' = r.comments
        /\ oracle' = NoAnswers
        /\ last' = Call(name, args)
        /\ Register(<<"address", ea>>)
        /\ Quiet
        /\ UNCHANGED <<structures_to_process, structmember_to_process,
                       enums_to_process, enummember_to_process,
                       comments_to_process, segments_to_process>>

\* the annotation Hooks::rename builds
rename_message(new_name, type, old_name) ==
    LET m1 == type
        m2 == IF type # "" THEN m1 \o " " ELSE m1
        m3 == m2 \o "renamed "
        m4 == IF old_name # "" THEN (m3 \o "from ") \o old_name ELSE m3
        m5 == m4 \o "to "
    IN  m5 \o new_name

rename ==
    \E ea \in Addrs, new_name \in NewNames, type \in Types, old_name \in OldNames :
        AddressIntake("rename", <<ea, new_name, type, old_name>>, ea,
                      rename_message(new_name, type, old_name))

\* change_comment sending its annotation at once, like the other entry points
change_comment_annotates ==
    \E ea \in Addrs :
        /\ BatchOpen
        /\ comments_to_process' = SetInsert(comments_to_process, ea)
        /\ auto_comments' = <<<<ea, "Changed comment">>>>
        /\ oracle' = NoAnswers
        /\ last' = Call("change_comment", <<ea>>)
        /\ Register(<<"comment", ea>>)
        /\ Quiet
        /\ UNCHANGED <<addresses_to_process, structures_to_process,
                       structmember_to_process, enums_to_process,
                       enummember_to_process, segments_to_process>>

change_comment ==
    \E ea \in Addrs :
        /\ BatchOpen
        /\ comments_to_process' = SetInsert(comments_to_process, ea)
        /\ auto_comments' = <<>>
        /\ oracle' = NoAnswers
        /\ last' = Call("change_comment", <<ea>>)
        /\ Register(<<"comment", ea>>)
        /\ Quiet
        /\ UNCHANGED <<addresses_to_process, structures_to_process,
                       structmember_to_process, enums_to_process,
                       enummember_to_process, segments_to_process>>

undefine ==
    \E ea \in Addrs : AddressIntake("undefine", <<ea>>, ea, "Undefne")

delete_function ==
    \E ea \in Addrs : AddressIntake("delete_function", <<ea>>, ea, "Delete function")

make_code ==
    \E ea \in Addrs : AddressIntake("make_code", <<ea>>, ea, "Create code")

make_data ==
    \E ea \in Addrs : AddressIntake("make_data", <<ea>>, ea, "Create data")

add_function ==
    \E ea \in Addrs : AddressIntake("add_function", <<ea>>, ea, "Create function")

change_type_information ==
    \E ea \in Addrs :
        AddressIntake("change_type_information", <<ea>>, ea, "Type information changed")

update_structure ==
    \E struct_id \in Structs :
        /\ BatchOpen
        /\ structures_to_process' = SetInsert(structures_to_process, struct_id)
        /\ auto_comments' = <<<<struct_id, "Updated">>>>
        /\ oracle' = NoAnswers
        /\ last' = Call("update_structure", <<struct_id>>)
        /\ Register(<<"structure", struct_id>>)
        /\ Quiet
        /\ UNCHANGED <<addresses_to_process, structmember_to_process,
                       enums_to_process, enummember_to_process,
                       comments_to_process, segments_to_process>>

\* an intake entry point that only calls add_strucmember_to_process
MemberIntake(name, struct_id, member_id, member_offset, message, answers) ==
    /\ BatchOpen
    /\ structmember_to_process' =
           add_strucmember_to_process(structmember_to_process, struct_id,
                                      member_id, member_offset)
    /\ auto_comments' = <<<<struct_id, message>>>>
    /\ oracle' = answers
    /\ last' = Call(name, <<struct_id, member_id, member_offset>>)
    /\ Register(<<"member", struct_id, member_id, member_offset>>)
    /\ Quiet
    /\ UNCHANGED <<addresses_to_process, structures_to_process, enums_to_process,
                   enummember_to_process, comments_to_process, segments_to_process>>

update_structure_member ==
    \E struct_id \in Structs, edit \in MemberEdits, member_id_fullname \in FullNames :
        LET member_id == edit[1]
            member_offset == edit[2]
        IN  MemberIntake("update_structure_member", struct_id, member_id, member_offset,
                         (("Member updated at offset " \o ea_to_hex(member_offset))
                              \o " : ") \o member_id_fullname,
                         [get_member_fullname |-> member_id_fullname])

delete_structure_member ==
    \E struct_id \in Structs, edit \in MemberEdits :
        LET member_id == edit[1]
            offset == edit[2]
        IN  MemberIntake("delete_structure_member", struct_id, member_id, offset,
                         "Member deleted", NoAnswers)

\* update_enum registering a candidate in enummember_to_process_ as well
update_enum_registers_member ==
    \E enum_id \in Enums :
        /\ BatchOpen
        /\ enums_to_process' = SetInsert(enums_to_process, enum_id)
        /\ enummember_to_process' = MapAssign(enummember_to_process, enum_id, enum_id)
        /\ auto_comments' = <<<<enum_id, "Updated">>>>
        /\ oracle' = NoAnswers
        /\ last' = Call("update_enum", <<enum_id>>)
        /\ Register(<<"enum", enum_id>>)
        /\ Quiet
        /\ UNCHANGED <<addresses_to_process, structures_to_process,
                       structmember_to_process, comments_to_process,
                       segments_to_process>>

\* Hooks::update_enum
update_enum ==
    \E enum_id \in Enums :
        /\ BatchOpen
        /\ enums_to_process' = SetInsert(enums_to_process, enum_id)
        /\ auto_comments' = <<<<enum_id, "Updated">>>>
        /\ oracle' = NoAnswers
        /\ last' = Call("update_enum", <<enum_id>>)
        /\ Register(<<"enum", enum_id>>)
        /\ Quiet
        /\ UNCHANGED <<addresses_to_process, structures_to_process,
                       structmember_to_process, enummember_to_process,
                       comments_to_process, segments_to_process>>

\* the answers change_operand_type can read: is_code is read only when
\* get_func finds nothing, is_member_id only when both fail
OperandAnswers ==
    {a \in [get_func : BOOLEAN, is_code : BOOLEAN, is_member_id : BOOLEAN] :
        /\ a.get_func => ~a.is_code
        /\ (a.get_func \/ a.is_code) => ~a.is_member_id}

\* change_operand_type without the test of is_member_id
change_operand_type_warns_member_id ==
    \E ea \in Addrs, a \in OperandAnswers :
        /\ BatchOpen
        /\ oracle' = a
        /\ last' = Call("change_operand_type", <<ea>>)
        /\ trace' = <<>>
        /\ result' = "ok"
        /\ IF a.get_func \/ a.is_code
           THEN /\ addresses_to_process' = SetInsert(addresses_to_process, ea)
                /\ auto_comments' = <<<<ea, "Operand type change">>>>
                /\ log' = <<>>
                /\ Register(<<"address", ea>>)
           ELSE /\ UNCHANGED addresses_to_process
                /\ auto_comments' = <<>>
                /\ log' = <<<<"WARNING",
                              ("Operand type changed at " \o ea_to_hex(ea))
                                  \o ", code out of a function: not implemented">>>>
                /\ Register(<<"operand", ea, "not implemented">>)
        /\ UNCHANGED <<structures_to_process, structmember_to_process,
                       enums_to_process, enummember_to_process,
                       comments_to_process, segments_to_process>>

\* Hooks::change_operand_type
change_operand_type ==
    \E ea \in Addrs, a \in OperandAnswers :
        /\ BatchOpen
        /\ oracle' = a
        /\ last' = Call("change_operand_type", <<ea>>)
        /\ trace' = <<>>
        /\ result' = "ok"
        /\ IF a.get_func \/ a.is_code
           THEN /\ addresses_to_process' = SetInsert(addresses_to_process, ea)
                /\ auto_comments' = <<<<ea, "Operand type change">>>>
                /\ log' = <<>>
                /\ Register(<<"address", ea>>)
           ELSE IF a.is_member_id
           THEN /\ UNCHANGED addresses_to_process
                /\ auto_comments' = <<>>
                /\ log' = <<>>
                /\ Register(<<"operand", ea, "member id">>)
           ELSE /\ UNCHANGED addresses_to_process
                /\ auto_comments' = <<>>
                /\ log' = <<<<"WARNING",
                              ("Operand type changed at " \o ea_to_hex(ea))
                                  \o ", code out of a function: not implemented">>>>
                /\ Register(<<"operand", ea, "not implemented">>)
        /\ UNCHANGED <<structures_to_process, structmember_to_process,
                       enums_to_process, enummember_to_process,
                       comments_to_process, segments_to_process>>

add_segment ==
    \E segment \in Segments :
        /\ BatchOpen
        /\ segments_to_process' = SegmentInsert(segments_to_process, segment)
        /\ auto_comments' = <<>>
        /\ oracle' = NoAnswers
        /\ last' = Call("add_segment", segment)
        /\ Register(<<"segment", segment[1], segment[2]>>)
        /\ Quiet
        /\ UNCHANGED <<addresses_to_process, structures_to_process,
                       structmember_to_process, enums_to_process,
                       enummember_to_process, comments_to_process>>

\* flush forgetting segments_to_process_
flush_keeps_segments ==
    /\ addresses_to_process' = <<>>
    /\ structures_to_process' = <<>>
    /\ structmember_to_process' = EmptyMap
    /\ enums_to_process' = <<>>
    /\ enummember_to_process' = EmptyMap
    /\ comments_to_process' = <<>>
    /\ UNCHANGED segments_to_process
    /\ auto_comments' = <<>>
    /\ oracle' = NoAnswers
    /\ last' = Call("flush", <<>>)
    /\ registered' = EmptyBag
    /\ Quiet

\* Hooks::flush
flush ==
    /\ addresses_to_process' = <<>>
    /\ structures_to_process' = <<>>
    /\ structmember_to_process' = EmptyMap
    /\ enums_to_process' = <<>>
    /\ enummember_to_process' = EmptyMap
    /\ comments_to_process' = <<>>
    /\ segments_to_process' = <<>>
    /\ auto_comments' = <<>>
    /\ oracle' = NoAnswers
    /\ last' = Call("flush", <<>>)
    /\ registered' = EmptyBag
    /\ Quiet

\* ------------------------------------------------------------- the database
\* member_t*: <<>> is a null pointer, <<id>> a member whose id field is id
MemberPtrs == {<<>>} \cup {<<id>> : id \in MemberIds \cup {BADNODE}}

\* uval_t returned by get_struc_idx and get_enum_idx: BADADDR or an index
Indexes == {BADADDR, 0}

\* what the database can answer about one structure id
StrucAnswers ==
    [get_struc : BOOLEAN,
     get_struc_idx : Indexes,
     get_func_by_frame : {BADADDR} \cup Funcs,
     get_member : [Offsets -> MemberPtrs]]

\* the queries save_structures makes about struct_id, given whether it is in
\* the structure set and the offset of its member entry (BADADDR: no entry);
\* an answer that is not read is recorded with its default value
StrucAnswersRead(a, in_structures, member_offset) ==
    LET in_members == member_offset # BADADDR
        deleted == in_members /\ (~a.get_struc \/ a.get_struc_idx = BADADDR)
        func_read == (in_structures /\ a.get_struc_idx = BADADDR) \/ deleted
        member_read == in_members /\ ~(deleted /\ a.get_func_by_frame = BADADDR)
        valid(m) == m # <<>> /\ m[1] # BADNODE
    IN  /\ (~in_structures /\ ~in_members) => a.get_struc_idx = BADADDR
        /\ ~in_members => ~a.get_struc
        /\ ~func_read => a.get_func_by_frame = BADADDR
        /\ \A o \in Offsets :
               \/ a.get_member[o] = <<>>
               \/ member_read /\ o = member_offset
               \/ /\ member_read
                  /\ member_offset > 0
                  /\ o = member_offset - 1
                  /\ valid(a.get_member[member_offset])

StrucAnswersFor(struct_id) ==
    {a \in StrucAnswers :
        StrucAnswersRead(a, struct_id \in Range(structures_to_process),
                         IF struct_id \in DOMAIN structmember_to_process
                         THEN structmember_to_process[struct_id][2]
                         ELSE BADADDR)}

EnumAnswersFor(enum_id) ==
    IF enum_id \in Range(enums_to_process) THEN Indexes ELSE {BADADDR}

RECURSIVE StrucChoices(_)
StrucChoices(ids) ==
    IF ids = {}
    THEN {<<>>}
    ELSE LET id == CHOOSE x \in ids : TRUE
         IN  {(id :> a) @@ f : a \in StrucAnswersFor(id), f \in StrucChoices(ids \ {id})}

RECURSIVE EnumChoices(_)
EnumChoices(ids) ==
    IF ids = {}
    THEN {<<>>}
    ELSE LET id == CHOOSE x \in ids : TRUE
         IN  {(id :> a) @@ f : a \in EnumAnswersFor(id), f \in EnumChoices(ids \ {id})}

\* the database as one save() can observe it.  The database changes only
\* through IDA events, and every event enters an intake entry point: a
\* save() that directly follows a save() reads the database the first read
SaveAnswers ==
    IF last.op = "save"
    THEN {oracle}
    ELSE {[struc |-> s, get_enum_idx |-> e] :
             s \in StrucChoices(Structs), e \in EnumChoices(Enums)}

\* ------------------------------------------------------------- save
Event(call, site, args) == [call |-> call, site |-> site, args |-> args]

RECURSIVE Flatten(_)
Flatten(seqs) ==
    IF seqs = <<>> THEN <<>> ELSE Head(seqs) \o Flatten(Tail(seqs))

\* the first loop deleting every structure that has no index
save_structure_ignores_owner(db, struct_id) ==
    IF db.struc[struct_id].get_struc_idx # BADADDR
    THEN <<Event("accept_struct", 278, <<BADADDR, struct_id>>)>>
    ELSE <<Event("delete_struct", 293, <<struct_id>>)>>

\* one iteration of the first loop of save_structures
save_structure(db, struct_id) ==
    LET struct_idx == db.struc[struct_id].get_struc_idx
        func_ea == db.struc[struct_id].get_func_by_frame
    IN  IF struct_idx # BADADDR
        THEN <<Event("accept_struct", 278, <<BADADDR, struct_id>>)>>
        ELSE IF func_ea # BADADDR
        THEN <<Event("accept_struct", 288, <<func_ea, struct_id>>),
               Event("accept_ea", 289, <<func_ea>>)>>
        ELSE <<Event("delete_struct", 293, <<struct_id>>)>>

\* the second loop without the `continue` of line 315
save_structmember_no_continue(db, struct_id, member_offset) ==
    LET ida_struct == db.struc[struct_id].get_struc
        struct_idx == db.struc[struct_id].get_struc_idx
        deleted == ~ida_struct \/ struct_idx = BADADDR
        func_ea == db.struc[struct_id].get_func_by_frame
        stackframe_func_addr == IF deleted THEN func_ea ELSE BADADDR
        ida_member == db.struc[struct_id].get_member[member_offset]
        ida_prev_member == db.struc[struct_id].get_member[member_offset - 1]
    IN  (IF deleted /\ func_ea = BADADDR
         THEN <<Event("delete_struct_member", 314, <<BADADDR, struct_id, member_offset>>)>>
         ELSE <<>>)
        \o
        (IF deleted
         THEN <<Event("accept_function", 319, <<stackframe_func_addr>>)>>
         ELSE <<>>)
        \o
        (IF ida_member = <<>> \/ ida_member[1] = BADNODE
         THEN <<Event("delete_struct_member", 327,
                      <<stackframe_func_addr, struct_id, member_offset>>)>>
         ELSE IF /\ member_offset > 0
                 /\ ida_prev_member # <<>>
                 /\ ida_prev_member[1] = ida_member[1]
         THEN <<Event("delete_struct_member", 337,
                      <<stackframe_func_addr, struct_id, member_offset>>)>>
         ELSE <<Event("accept_struct_member", 343,
                      <<stackframe_func_addr, ida_member[1]>>)>>)

\* the second loop without the look at the member below the offset
save_structmember_no_overlap(db, struct_id, member_offset) ==
    LET ida_struct == db.struc[struct_id].get_struc
        struct_idx == db.struc[struct_id].get_struc_idx
        deleted == ~ida_struct \/ struct_idx = BADADDR
        func_ea == db.struc[struct_id].get_func_by_frame
        stackframe_func_addr == IF deleted THEN func_ea ELSE BADADDR
        ida_member == db.struc[struct_id].get_member[member_offset]
    IN  IF deleted /\ func_ea = BADADDR
        THEN <<Event("delete_struct_member", 314, <<BADADDR, struct_id, member_offset>>)>>
        ELSE (IF deleted
              THEN <<Event("accept_function", 319, <<stackframe_func_addr>>)>>
              ELSE <<>>)
             \o
             (IF ida_member = <<>> \/ ida_member[1] = BADNODE
              THEN <<Event("delete_struct_member", 327,
                           <<stackframe_func_addr, struct_id, member_offset>>)>>
              ELSE <<Event("accept_struct_member", 343,
                           <<stackframe_func_addr, ida_member[1]>>)>>)

\* one iteration of the second loop of save_structures
save_structmember(db, struct_id, member_offset) ==
    LET ida_struct == db.struc[struct_id].get_struc
        struct_idx == db.struc[struct_id].get_struc_idx
        deleted == ~ida_struct \/ struct_idx = BADADDR
        func_ea == db.struc[struct_id].get_func_by_frame
        stackframe_func_addr == IF deleted THEN func_ea ELSE BADADDR
        ida_member == db.struc[struct_id].get_member[member_offset]
        ida_prev_member == db.struc[struct_id].get_member[member_offset - 1]
    IN  IF deleted /\ func_ea = BADADDR
        THEN <<Event("delete_struct_member", 314, <<BADADDR, struct_id, member_offset>>)>>
        ELSE (IF deleted
              THEN <<Event("accept_function", 319, <<stackframe_func_addr>>)>>
              ELSE <<>>)
             \o
             (IF ida_member = <<>> \/ ida_member[1] = BADNODE
              THEN <<Event("delete_struct_member", 327,
                           <<stackframe_func_addr, struct_id, member_offset>>)>>
              ELSE IF /\ member_offset > 0
                      /\ ida_prev_member # <<>>
                      /\ ida_prev_member[1] = ida_member[1]
              THEN <<Event("delete_struct_member", 337,
                           <<stackframe_func_addr, struct_id, member_offset>>)>>
              ELSE <<Event("accept_struct_member", 343,
                           <<stackframe_func_addr, ida_member[1]>>)>>)

\* Hooks::save_structures
save_structures(db, structures, members) ==
    Flatten([i \in DOMAIN structures |-> save_structure(db, structures[i])])
    \o
    Flatten([i \in DOMAIN MapKeys(members) |->
                save_structmember(db, MapKeys(members)[i], members[MapKeys(members)[i]][2])])

\* the loop of save_enums with the test of the index inverted
save_enum_inverted(db, enum_id) ==
    IF db.get_enum_idx[enum_id] # BADADDR
    THEN <<Event("delete_enum", 356, <<enum_id>>)>>
    ELSE <<Event("accept_enum", 361, <<enum_id>>)>>

\* one iteration of the loop of save_enums
save_enum(db, enum_id) ==
    IF db.get_enum_idx[enum_id] = BADADDR
    THEN <<Event("delete_enum", 356, <<enum_id>>)>>
    ELSE <<Event("accept_enum", 361, <<enum_id>>)>>

\* Hooks::save_enums
save_enums(db, enums) ==
    Flatten([i \in DOMAIN enums |-> save_enum(db, enums[i])])

\* the loop of save() over comments_to_process_
RECURSIVE save_comments(_, _, _)
save_comments(addresses, comments, todo) ==
    IF todo = <<>>
    THEN [addresses |-> addresses, comments |-> comments]
    ELSE LET r == add_address_to_process(addresses, comments, Head(todo), "Changed comment")
         IN  save_comments(r.addresses, r.comments, Tail(todo))

\* the loop of save() over addresses_to_process_
save_addresses(addresses) ==
    [i \in DOMAIN addresses |-> Event("accept_ea", 231, <<addresses[i]>>)]

\* the segment loop passing the end address of the segment
save_segments_by_end(segments) ==
    [i \in DOMAIN segments |-> Event("accept_segment", 235, <<segments[i][2]>>)]

\* the loop of save() over segments_to_process_
save_segments(segments) ==
    [i \in DOMAIN segments |-> Event("accept_segment", 235, <<segments[i][1]>>)]

\* save() ending with the clears of flush()
save_pending_cleared(addresses) ==
    /\ addresses_to_process' = <<>>
    /\ structures_to_process' = <<>>
    /\ structmember_to_process' = EmptyMap
    /\ enums_to_process' = <<>>
    /\ enummember_to_process' = EmptyMap
    /\ comments_to_process' = <<>>
    /\ segments_to_process' = <<>>

\* the pending containers as save() leaves them, given the folded addresses
save_pending(addresses) ==
    /\ addresses_to_process' = addresses
    /\ UNCHANGED <<structures_to_process, structmember_to_process, enums_to_process,
                   enummember_to_process, comments_to_process, segments_to_process>>

\* the add_auto_comment calls add_address_to_process makes during the fold
save_annotations(comments) ==
    [i \in DOMAIN comments |-> Event("add_auto_comment", 260, comments[i])]

\* the calls of save() with the address loop run before the structures
save_calls_addresses_first(db, structures, members, enums, folded, segments) ==
    <<Event("visit_start", 217, <<>>)>>
    \o save_annotations(folded.comments)
    \o save_addresses(folded.addresses)
    \o save_structures(db, structures, members)
    \o save_enums(db, enums)
    \o save_segments(segments)
    \o <<Event("visit_end", 237, <<>>), Event("MakeXmlExporter", 239, <<>>)>>

\* the calls save() makes to the visitor, the repository and the serializer,
\* in the order of its body
save_calls(db, structures, members, enums, folded, segments) ==
    <<Event("visit_start", 217, <<>>)>>
    \o save_annotations(folded.comments)
    \o save_structures(db, structures, members)
    \o save_enums(db, enums)
    \o save_addresses(folded.addresses)
    \o save_segments(segments)
    \o <<Event("visit_end", 237, <<>>), Event("MakeXmlExporter", 239, <<>>)>>

\* Hooks::save; serialized is FALSE when the XML exporter throws
save ==
    \E db \in SaveAnswers, serialized \in BOOLEAN :
        LET folded == save_comments(addresses_to_process, <<>>, comments_to_process)
        IN  /\ save_pending(folded.addresses)
            /\ auto_comments' = folded.comments
            /\ trace' = save_calls(db, structures_to_process, structmember_to_process,
                                   enums_to_process, folded, segments_to_process)
            /\ log' = IF serialized THEN <<<<"INFO", "Saved in %lld seconds">>>> ELSE <<>>
            /\ result' = IF serialized THEN "ok" ELSE "error"
            /\ oracle' = db
            /\ last' = Call("save", <<>>)
            /\ UNCHANGED registered

Next ==
    \/ rename
    \/ change_comment
    \/ undefine
    \/ delete_function
    \/ make_code
    \/ make_data
    \/ add_function
    \/ update_structure
    \/ update_structure_member
    \/ delete_structure_member
    \/ update_enum
    \/ change_operand_type
    \/ add_segment
    \/ change_type_information
    \/ save
    \/ flush

Spec == Init /\ [][Next]_vars

\* ------------------------------------------------------------- observations
Saved == last.op = "save"

PendingEmpty ==
    /\ addresses_to_process = <<>>
    /\ structures_to_process = <<>>
    /\ DOMAIN structmember_to_process = {}
    /\ enums_to_process = <<>>
    /\ DOMAIN enummember_to_process = {}
    /\ comments_to_process = <<>>
    /\ segments_to_process = <<>>

Count(seq, x) == Cardinality({i \in DOMAIN seq : seq[i] = x})

\* how many times the last call made `call` with exactly `args`
CountCall(call, args) ==
    Cardinality({i \in DOMAIN trace : trace[i].call = call /\ trace[i].args = args})

RegisteredEntities == BagToSet(registered)

IsMemberOp(e) == e.call \in {"delete_struct_member", "accept_struct_member"}

\* the struct-member operations of the last call, in order
MemberOps == SelectSeq(trace, IsMemberOp)

\* the member operation the member loop emitted for the pending entry of struct_id
MemberOpOf(struct_id) ==
    LET keys == MapKeys(structmember_to_process)
        i == CHOOSE j \in DOMAIN keys : keys[j] = struct_id
    IN  MemberOps[i]

\* the visitor operations that name struct_id as the structure they act on
StructOpsOf(struct_id) ==
    {i \in DOMAIN trace :
        \/ trace[i].call = "accept_struct" /\ trace[i].args[2] = struct_id
        \/ trace[i].call = "delete_struct" /\ trace[i].args[1] = struct_id
        \/ trace[i].call = "delete_struct_member" /\ trace[i].args[2] = struct_id}

VisitorCalls ==
    {"visit_start", "visit_end", "accept_ea", "accept_segment", "accept_struct",
     "delete_struct", "accept_struct_member", "delete_struct_member", "accept_enum",
     "delete_enum", "accept_function"}

\* ------------------------------------------------------------- claims

StillPending(entity) ==
    CASE entity[1] = "address"   -> entity[2] \in Range(addresses_to_process)
      [] entity[1] = "comment"   -> entity[2] \in Range(comments_to_process)
      [] entity[1] = "structure" -> entity[2] \in Range(structures_to_process)
      [] entity[1] = "member"    -> entity[2] \in DOMAIN structmember_to_process
      [] entity[1] = "enum"      -> entity[2] \in Range(enums_to_process)
      [] entity[1] = "segment"   -> <<entity[2], entity[3]>> \in Range(segments_to_process)
      [] OTHER -> TRUE

Covered(entity) ==
    CASE entity[1] = "address"   -> CountCall("accept_ea", <<entity[2]>>) > 0
      [] entity[1] = "comment"   -> CountCall("accept_ea", <<entity[2]>>) > 0
      [] entity[1] = "structure" ->
             \E i \in StructOpsOf(entity[2]) :
                 trace[i].call \in {"accept_struct", "delete_struct"}
      [] entity[1] = "member"    ->
             /\ entity[2] \in DOMAIN structmember_to_process
             /\ structmember_to_process[entity[2]] = <<entity[3], entity[4]>>
             /\ LET op == MemberOpOf(entity[2])
                IN  \/ op.call = "accept_struct_member"
                    \/ op.args[2] = entity[2] /\ op.args[3] = entity[4]
      [] entity[1] = "enum"      ->
             CountCall("accept_enum", <<entity[2]>>)
                 + CountCall("delete_enum", <<entity[2]>>) > 0
      [] entity[1] = "segment"   -> CountCall("accept_segment", <<entity[2]>>) > 0
      [] OTHER -> FALSE

\* a warning was logged when the entity was registered
Warned(entity) == entity[1] = "operand" /\ entity[3] = "not implemented"

\* C2 (as stated): every intake call made before a save() is either covered
\* by an export operation of that save() or was answered with a warning.
C2_NothingDroppedSilently ==
    Saved => \A entity \in RegisteredEntities : Covered(entity) \/ Warned(entity)

\* the two kinds of call the code drops without a warning
Overwritten(entity) ==
    /\ entity[1] = "member"
    /\ structmember_to_process[entity[2]] # <<entity[3], entity[4]>>

IgnoredMemberId(entity) == entity[1] = "operand" /\ entity[3] = "member id"

\* C2 (amended): every intake call made before a save() is covered by an
\* export operation of that save() or was answered with a warning, except a
\* member edit overwritten by a later edit of the same structure and an
\* operand-type change on a member identifier: those two are dropped with
\* neither.
C2_DroppedOnlyWhereDocumented ==
    Saved => \A entity \in RegisteredEntities :
                 IF Overwritten(entity) \/ IgnoredMemberId(entity)
                 THEN ~Covered(entity) /\ ~Warned(entity)
                 ELSE Covered(entity) \/ Warned(entity)

C2_Witness ==
    /\ Saved
    /\ \E entity \in RegisteredEntities : Warned(entity)
    /\ \E entity \in RegisteredEntities : entity[1] = "member" /\ Covered(entity)

\* every entry of the container value `before` is an entry of `after`
KeepsSet(before, after) == Range(before) \subseteq Range(after)

KeepsMap(before, after) ==
    \A k \in DOMAIN before : k \in DOMAIN after /\ after[k] = before[k]

\* C3: when the serializer fails, save() ends with the error, every entry
\* pending before the failed save() is pending after it, and a save() that
\* follows it with the database unchanged makes the same visitor calls.
C3_FailedSaveKeepsBatch ==
    [][/\ (last'.op = "save" /\ result' = "error") =>
              /\ KeepsSet(addresses_to_process, addresses_to_process')
              /\ KeepsSet(structures_to_process, structures_to_process')
              /\ KeepsMap(structmember_to_process, structmember_to_process')
              /\ KeepsSet(enums_to_process, enums_to_process')
              /\ KeepsMap(enummember_to_process, enummember_to_process')
              /\ KeepsSet(comments_to_process, comments_to_process')
              /\ KeepsSet(segments_to_process, segments_to_process')
       /\ (Saved /\ result = "error" /\ last'.op = "save" /\ oracle' = oracle) =>
              trace' = trace]_vars

C3_Witness ==
    /\ Saved
    /\ result = "error"
    /\ comments_to_process # <<>>
    /\ DOMAIN structmember_to_process # {}
    /\ \E i \in DOMAIN trace : trace[i].call = "accept_struct_member"

\* C4: however many address mutations were registered for an address since
\* the last flush(), the address holds one slot of addresses_to_process_ and
\* the address loop of save() calls accept_ea for it exactly once.
C4_Dedup ==
    \A ea \in Addrs :
        CopiesIn(<<"address", ea>>, registered) >= 1 =>
            /\ Count(addresses_to_process, ea) = 1
            /\ Saved =>
                   Cardinality({i \in DOMAIN trace :
                                   trace[i] = Event("accept_ea", 231, <<ea>>)}) = 1

C4_Witness ==
    /\ Saved
    /\ \E ea \in Addrs : CopiesIn(<<"address", ea>>, registered) >= 2

IsMemberEdit == last.op \in {"update_structure_member", "delete_structure_member"}

\* C5: a member edit replaces the pending entry of its structure by its own
\* (member id, offset), and save() emits one struct-member operation per
\* pending structure, resolved from the offset the entry holds: the delete
\* names that offset, the accept names the member the database holds there.
C5_LastWriteWins ==
    /\ IsMemberEdit =>
           structmember_to_process[last.args[1]] = <<last.args[2], last.args[3]>>
    /\ Saved =>
           /\ Len(MemberOps) = Cardinality(DOMAIN structmember_to_process)
           /\ \A struct_id \in DOMAIN structmember_to_process :
                  LET op == MemberOpOf(struct_id)
                      offset == structmember_to_process[struct_id][2]
                  IN  IF op.call = "delete_struct_member"
                      THEN op.args[2] = struct_id /\ op.args[3] = offset
                      ELSE <<op.args[2]>> = oracle.struc[struct_id].get_member[offset]

\* two edits with different offsets were registered for one structure
C5_Witness ==
    /\ Saved
    /\ \E e1, e2 \in RegisteredEntities :
           /\ e1[1] = "member" /\ e2[1] = "member"
           /\ e1[2] = e2[2] /\ e1[4] # e2[4]
           /\ MemberOpOf(e1[2]).call = "accept_struct_member"

\* C6: a pending structure whose index is invalid and whose frame has an
\* owning function gets accept_struct scoped to the function, directly
\* followed by accept_ea of the function, and no delete_struct.
C6_DeletedFrameExportsFunction ==
    Saved =>
        \A struct_id \in Range(structures_to_process) :
            LET func_ea == oracle.struc[struct_id].get_func_by_frame
            IN  (oracle.struc[struct_id].get_struc_idx = BADADDR /\ func_ea # BADADDR) =>
                    /\ \E i \in DOMAIN trace :
                           /\ trace[i].call = "accept_struct"
                           /\ trace[i].args = <<func_ea, struct_id>>
                           /\ i + 1 \in DOMAIN trace
                           /\ trace[i + 1].call = "accept_ea"
                           /\ trace[i + 1].args = <<func_ea>>
                    /\ CountCall("delete_struct", <<struct_id>>) = 0

C6_Witness ==
    /\ Saved
    /\ \E struct_id \in Range(structures_to_process) :
           /\ oracle.struc[struct_id].get_struc_idx = BADADDR
           /\ oracle.struc[struct_id].get_func_by_frame # BADADDR

\* the structure is pending, its index is invalid and no function owns it
StandaloneDeleted(struct_id) ==
    /\ struct_id \in Range(structures_to_process)
    /\ oracle.struc[struct_id].get_struc_idx = BADADDR
    /\ oracle.struc[struct_id].get_func_by_frame = BADADDR

\* C7 (as stated): a standalone deleted structure gets exactly one
\* delete_struct and no other visitor operation naming it, whatever else is
\* pending.
C7_OnlyDeleteStruct ==
    Saved =>
        \A struct_id \in Structs :
            StandaloneDeleted(struct_id) =>
                /\ CountCall("delete_struct", <<struct_id>>) = 1
                /\ Cardinality(StructOpsOf(struct_id)) = 1

\* C7 (amended): a standalone deleted structure gets exactly one
\* delete_struct and no accept_struct; the only other operation naming it is
\* the delete_struct_member(BADADDR, id, offset) of its pending member entry,
\* emitted once when it has one.
C7_DeleteStructAndMember ==
    Saved =>
        \A struct_id \in Structs :
            StandaloneDeleted(struct_id) =>
                /\ CountCall("delete_struct", <<struct_id>>) = 1
                /\ IF struct_id \in DOMAIN structmember_to_process
                   THEN /\ Cardinality(StructOpsOf(struct_id)) = 2
                        /\ MemberOpOf(struct_id) =
                               Event("delete_struct_member", 314,
                                     <<BADADDR, struct_id,
                                       structmember_to_process[struct_id][2]>>)
                   ELSE Cardinality(StructOpsOf(struct_id)) = 1

C7_Witness ==
    /\ Saved
    /\ \E struct_id \in DOMAIN structmember_to_process : StandaloneDeleted(struct_id)

\* the database answered the same member for the entry's offset and the one
\* below it
SameAsPrevious(struct_id) ==
    LET offset == structmember_to_process[struct_id][2]
        members == oracle.struc[struct_id].get_member
    IN  offset > 0 /\ members[offset] = members[offset - 1]

\* C8: a pending member entry with an offset above 0 for which the database
\* returns one member at the offset and at the offset below gets
\* delete_struct_member(_, structure, offset) and no accept_struct_member,
\* for a live structure and for a frame.
C8_OverlapTieBreak ==
    Saved =>
        \A struct_id \in DOMAIN structmember_to_process :
            LET offset == structmember_to_process[struct_id][2]
                op == MemberOpOf(struct_id)
            IN  /\ SameAsPrevious(struct_id) =>
                       /\ op.call = "delete_struct_member"
                       /\ op.args[2] = struct_id
                       /\ op.args[3] = offset
                /\ (offset > 0 /\ op.call = "accept_struct_member") =>
                       ~SameAsPrevious(struct_id)

\* a frame whose member at offset 1 is the member that starts at offset 0
C8_Witness ==
    /\ Saved
    /\ \E struct_id \in DOMAIN structmember_to_process :
           /\ SameAsPrevious(struct_id)
           /\ oracle.struc[struct_id].get_member[1] \in {<<id>> : id \in MemberIds}
           /\ oracle.struc[struct_id].get_struc_idx = BADADDR
           /\ oracle.struc[struct_id].get_func_by_frame # BADADDR

\* C9: one save() emits exactly one enum operation per pending enum:
\* accept_enum when its index is valid, delete_enum when it is not.
C9_EnumReconciliation ==
    Saved =>
        \A enum_id \in Range(enums_to_process) :
            LET accepts == CountCall("accept_enum", <<enum_id>>)
                deletes == CountCall("delete_enum", <<enum_id>>)
            IN  IF oracle.get_enum_idx[enum_id] # BADADDR
                THEN accepts = 1 /\ deletes = 0
                ELSE accepts = 0 /\ deletes = 1

C9_Witness ==
    /\ Saved
    /\ \E e1, e2 \in Range(enums_to_process) :
           /\ oracle.get_enum_idx[e1] # BADADDR
           /\ oracle.get_enum_idx[e2] = BADADDR

\* the address was registered through change_comment only
CommentOnly(ea) ==
    /\ CopiesIn(<<"comment", ea>>, registered) >= 1
    /\ CopiesIn(<<"address", ea>>, registered) = 0

\* the pending structures that are deleted frames owned by ea
DeletedFramesOf(ea) ==
    {struct_id \in Range(structures_to_process) :
        /\ oracle.struc[struct_id].get_struc_idx = BADADDR
        /\ oracle.struc[struct_id].get_func_by_frame = ea}

\* C10 (as stated): change_comment appends no annotation; for an address
\* registered through change_comment only, save() appends exactly one
\* "Changed comment" annotation and calls accept_ea exactly once, and makes no
\* call that is about comments.
C10_CommentFoldedOnce ==
    /\ last.op = "change_comment" => auto_comments = <<>>
    /\ Saved =>
           \A ea \in Addrs :
               CommentOnly(ea) =>
                   /\ Count(auto_comments, <<ea, "Changed comment">>) = 1
                   /\ CountCall("accept_ea", <<ea>>) = 1
                   /\ \A i \in DOMAIN trace :
                          trace[i].call \in VisitorCalls \cup {"add_auto_comment",
                                                               "MakeXmlExporter"}

\* C10 (amended): change_comment appends no annotation; for an address
\* registered through change_comment only, save() appends exactly one
\* "Changed comment" annotation and its address loop calls accept_ea exactly
\* once; save_structures calls accept_ea for it once more per pending deleted
\* frame it owns; no call of save() is about comments.
C10_CommentFolding ==
    /\ last.op = "change_comment" => auto_comments = <<>>
    /\ Saved =>
           \A ea \in Addrs :
               CommentOnly(ea) =>
                   /\ Count(auto_comments, <<ea, "Changed comment">>) = 1
                   /\ Count(trace, Event("accept_ea", 231, <<ea>>)) = 1
                   /\ CountCall("accept_ea", <<ea>>) = 1 + Cardinality(DeletedFramesOf(ea))
                   /\ \A i \in DOMAIN trace :
                          trace[i].call \in VisitorCalls \cup {"add_auto_comment",
                                                               "MakeXmlExporter"}

C10_Witness ==
    /\ Saved
    /\ \E ea \in Addrs :
           /\ CommentOnly(ea)
           /\ Count(auto_comments, <<ea, "Changed comment">>) = 1
           /\ DeletedFramesOf(ea) # {}

\* the source lines of save_structures that call the visitor
StructSites == {278, 288, 289, 293, 314, 319, 327, 337, 343}

\* the source lines of save_enums that call the visitor
EnumSites == {356, 361}

\* the position of a call in the body of save()
Phase(event) ==
    CASE event.site = 217          -> 0
      [] event.site = 260          -> 1
      [] event.site \in StructSites -> 2
      [] event.site \in EnumSites  -> 3
      [] event.site = 231          -> 4
      [] event.site = 235          -> 5
      [] event.site = 237          -> 6
      [] event.site = 239          -> 7

\* C11: in every save(), visit_start is the first visitor call and visit_end
\* the last one; the comment fold comes before every structure and enum
\* operation, every structure and member operation before every enum
\* operation, these before the accept_ea calls of the address loop, these
\* before every accept_segment, and the serializer runs after visit_end.
C11_SaveOrder ==
    Saved =>
        /\ trace[1].call = "visit_start"
        /\ trace[Len(trace) - 1].call = "visit_end"
        /\ trace[Len(trace)].call = "MakeXmlExporter"
        /\ \A i \in DOMAIN trace :
               /\ trace[i].call = "visit_start" => i = 1
               /\ trace[i].call = "visit_end" => i = Len(trace) - 1
               /\ trace[i].call = "MakeXmlExporter" => i = Len(trace)
        /\ \A i, j \in DOMAIN trace :
               i < j => Phase(trace[i]) <= Phase(trace[j])

C11_Witness ==
    /\ Saved
    /\ \E i, j, k \in DOMAIN trace :
           /\ trace[i].call = "add_auto_comment"
           /\ trace[j].site \in StructSites
           /\ trace[k].site = 231
           /\ i < j
           /\ j < k

\* the calls of the last save() made at one of the given source lines
CallsAt(sites) == {i \in DOMAIN trace : trace[i].site \in sites}

\* the accept_struct or delete_struct calls that act on struct_id
StructLevelOps(struct_id) ==
    {i \in DOMAIN trace :
        \/ trace[i].call = "accept_struct" /\ trace[i].args[2] = struct_id
        \/ trace[i].call = "delete_struct" /\ trace[i].args[1] = struct_id}

\* the pending structures the database reports as deleted stack frames
DeletedFrameStructs ==
    {struct_id \in Range(structures_to_process) :
        /\ oracle.struc[struct_id].get_struc_idx = BADADDR
        /\ oracle.struc[struct_id].get_func_by_frame # BADADDR}

\* the pending member entries on a structure the database reports as a
\* deleted stack frame
DeletedFrameMembers ==
    {struct_id \in DOMAIN structmember_to_process :
        /\ \/ ~oracle.struc[struct_id].get_struc
           \/ oracle.struc[struct_id].get_struc_idx = BADADDR
        /\ oracle.struc[struct_id].get_func_by_frame # BADADDR}

\* C12 (as stated): whatever the database answers, save() makes exactly one
\* visitor call for every pending structure and exactly one for every
\* pending member entry.
C12_OneOperationPerEntry ==
    Saved =>
        /\ \A struct_id \in Range(structures_to_process) :
               Cardinality(StructLevelOps(struct_id)) = 1
        /\ Cardinality(CallsAt({278, 288, 289, 293})) = Len(structures_to_process)
        /\ Len(MemberOps) = Cardinality(DOMAIN structmember_to_process)
        /\ Cardinality(CallsAt({314, 319, 327, 337, 343}))
               = Cardinality(DOMAIN structmember_to_process)

\* C12 (amended): whatever the database answers, save() makes exactly one
\* accept_struct or delete_struct call for every pending structure and exactly
\* one accept_struct_member or delete_struct_member call for every pending
\* member entry; for a deleted stack frame whose owning function is found it
\* makes one more call, accept_ea of the owner after the structure call and
\* accept_function of the owner before the member call.
C12_OneClassificationPerEntry ==
    Saved =>
        /\ \A struct_id \in Range(structures_to_process) :
               Cardinality(StructLevelOps(struct_id)) = 1
        /\ Cardinality(CallsAt({278, 288, 293})) = Len(structures_to_process)
        /\ Cardinality(CallsAt({289})) = Cardinality(DeletedFrameStructs)
        /\ \A i \in CallsAt({289}) :
               /\ trace[i - 1].site = 288
               /\ trace[i - 1].args[2] \in DeletedFrameStructs
               /\ trace[i].args = <<trace[i - 1].args[1]>>
        /\ Len(MemberOps) = Cardinality(DOMAIN structmember_to_process)
        /\ Cardinality(CallsAt({314, 327, 337, 343}))
               = Cardinality(DOMAIN structmember_to_process)
        /\ Cardinality(CallsAt({319})) = Cardinality(DeletedFrameMembers)
        /\ \A i \in CallsAt({319}) :
               /\ trace[i + 1].site \in {327, 337, 343}
               /\ trace[i + 1].args[1] = trace[i].args[1]

C12_Witness ==
    /\ Saved
    /\ DeletedFrameStructs # {}
    /\ DeletedFrameMembers # {}
    /\ CallsAt({289}) # {}
    /\ CallsAt({319}) # {}

\* C13: whatever was pending and whatever call came before, flush() leaves
\* every pending container empty, makes no visitor call and sends no
\* annotation to the repository.
C13_FlushClears ==
    last.op = "flush" =>
        /\ addresses_to_process = <<>>
        /\ structures_to_process = <<>>
        /\ DOMAIN structmember_to_process = {}
        /\ enums_to_process = <<>>
        /\ DOMAIN enummember_to_process = {}
        /\ comments_to_process = <<>>
        /\ segments_to_process = <<>>
        /\ trace = <<>>
        /\ auto_comments = <<>>
        /\ BagCardinality(registered) = 0

C13_Witness ==
    /\ last.op = "flush"
    /\ PendingEmpty
    /\ trace = <<>>
    /\ auto_comments = <<>>

\* the intake entry points of Hooks
IntakeCalls ==
    {"rename", "change_comment", "undefine", "delete_function", "make_code",
     "make_data", "add_function", "update_structure", "update_structure_member",
     "delete_structure_member", "update_enum", "change_operand_type", "add_segment",
     "change_type_information"}

\* the step repeats the intake call before it, with the same arguments and
\* the same answers of the database
RepeatsIntake ==
    /\ last.op \in IntakeCalls
    /\ last' = last
    /\ oracle' = oracle
    /\ registered' # registered

RenameAnnotation(new_name, type, old_name) ==
    LET label == IF type = "" THEN "" ELSE type \o " "
        from == IF old_name = "" THEN "" ELSE ("from " \o old_name) \o " "
    IN  ((label \o "renamed ") \o from) \o ("to " \o new_name)

\* C15: rename(ea, new_name, type, old_name) leaves ea in the address
\* container and sends for ea the annotation "<type> renamed from <old> to
\* <new>", single spaces between its parts, "from <old>" left out exactly
\* when old_name is empty and the type exactly when type is empty.
C15_RenameAnnotation ==
    last.op = "rename" =>
        /\ last.args[1] \in Range(addresses_to_process)
        /\ auto_comments =
               <<<<last.args[1],
                   RenameAnnotation(last.args[2], last.args[3], last.args[4])>>>>

\* C16: undefine, delete_function, make_code, make_data, add_function and
\* change_type_information leave the address in the address container and
\* send for it exactly "Undefine", "Delete function", "Create code",
\* "Create data", "Create function" and "Type information changed".
C16_FixedAnnotations ==
    LET text == [undefine |-> "Undefine",
                 delete_function |-> "Delete function",
                 make_code |-> "Create code",
                 make_data |-> "Create data",
                 add_function |-> "Create function",
                 change_type_information |-> "Type information changed"]
    IN  last.op \in DOMAIN text =>
            /\ last.args[1] \in Range(addresses_to_process)
            /\ auto_comments = <<<<last.args[1], text[last.op]>>>>

\* C17: change_operand_type(ea) inserts ea into the address container and
\* sends "Operand type change" exactly when the database says ea is in a
\* function or is code; otherwise it changes no pending container and sends
\* no annotation, and it logs a warning exactly when ea is not a member id
\* either.
C17_OperandClassification ==
    [][last'.op = "change_operand_type" =>
          LET ea == last'.args[1]
          IN  IF oracle'.get_func \/ oracle'.is_code
              THEN /\ ea \in Range(addresses_to_process')
                   /\ Range(addresses_to_process') = Range(addresses_to_process) \cup {ea}
                   /\ auto_comments' = <<<<ea, "Operand type change">>>>
                   /\ log' = <<>>
              ELSE /\ pending' = pending
                   /\ auto_comments' = <<>>
                   /\ (log' # <<>>) <=> ~oracle'.is_member_id
                   /\ \A i \in DOMAIN log' : log'[i][1] = "WARNING"]_vars

C17_Witness ==
    /\ last.op = "change_operand_type"
    /\ ~oracle.get_func
    /\ ~oracle.is_code
    /\ oracle.is_member_id
    /\ log = <<>>
    /\ auto_comments = <<>>
    /\ last.args[1] \notin Range(addresses_to_process)

\* C18 (as stated): within one save(), accept_ea is called at most once for
\* any address, whatever is pending and whatever the database answers.
C18_AcceptAddressAtMostOnce ==
    Saved => \A ea \in Addrs : CountCall("accept_ea", <<ea>>) <= 1

\* C18 (amended): within one save(), the address loop calls accept_ea exactly
\* once for every address of the address container, comment addresses
\* included, and for no other; save_structures calls it once more for every
\* pending deleted stack frame whose owning function the address is.
C18_AcceptAddressCount ==
    Saved =>
        \A ea \in Addrs :
            /\ Count(trace, Event("accept_ea", 231, <<ea>>))
                   = IF ea \in Range(addresses_to_process) THEN 1 ELSE 0
            /\ Count(trace, Event("accept_ea", 289, <<ea>>))
                   = Cardinality(DeletedFramesOf(ea))
            /\ DeletedFramesOf(ea) = {} => CountCall("accept_ea", <<ea>>) <= 1

C18_Witness ==
    /\ Saved
    /\ \E ea \in Range(addresses_to_process) :
           /\ CopiesIn(<<"address", ea>>, registered) >= 1
           /\ DeletedFramesOf(ea) # {}
           /\ CountCall("accept_ea", <<ea>>) = 2

\* C19: save() removes nothing: the structure, member, enum, enum-member,
\* segment and comment containers are after save() what they were before,
\* and the address container holds what it held before together with the
\* pending comment addresses.
C19_SaveRemovesNothing ==
    [][last'.op = "save" =>
          /\ structures_to_process' = structures_to_process
          /\ structmember_to_process' = structmember_to_process
          /\ enums_to_process' = enums_to_process
          /\ enummember_to_process' = enummember_to_process
          /\ segments_to_process' = segments_to_process
          /\ comments_to_process' = comments_to_process
          /\ Range(addresses_to_process')
                 = Range(addresses_to_process) \cup Range(comments_to_process)
          /\ Len(addresses_to_process') = Cardinality(Range(addresses_to_process'))]_vars

C19_Witness ==
    /\ Saved
    /\ comments_to_process # <<>>
    /\ Range(comments_to_process) \subseteq Range(addresses_to_process)
    /\ \E ea \in Range(addresses_to_process) : ea \notin Range(comments_to_process)
    /\ BagCardinality(registered) = 2

\* C20: enummember_to_process_ is empty in every reachable state, after any
\* sequence of intake calls, save() and flush(): no entry point writes it,
\* update_enum included, and save() makes no call about an enum member; the
\* calls of save_enums are accept_enum and delete_enum of the pending enums.
C20_EnumMembersNeverPending ==
    /\ DOMAIN enummember_to_process = {}
    /\ \A i \in DOMAIN trace :
           /\ trace[i].call \notin {"accept_enum_member", "delete_enum_member"}
           /\ trace[i].site \in EnumSites =>
                  /\ trace[i].call \in {"accept_enum", "delete_enum"}
                  /\ trace[i].args[1] \in Range(enums_to_process)
    /\ Saved => Cardinality(CallsAt(EnumSites)) = Len(enums_to_process)

C20_Witness ==
    /\ Saved
    /\ DOMAIN enummember_to_process = {}
    /\ \E enum_id \in Range(enums_to_process) :
           /\ CopiesIn(<<"enum", enum_id>>, registered) = 2
           /\ CountCall("accept_enum", <<enum_id>>) = 1
====
